---- MODULE Spec2Model ----
(***************************************************************************)
(* Selection and settings-application workflow of the headshot viewer      *)
(* (src/headshot_viewer.py): the gallery tab's record collection and       *)
(* selection flags, the gallery tiles, the preset manager, the batch       *)
(* submit, the editor and hue panels' live adjustments, and the directory  *)
(* chooser.  Qt signals are delivered synchronously on the one UI thread,  *)
(* so every handler below runs to completion as one step.                  *)
(***************************************************************************)
EXTENDS Integers, Sequences, FiniteSets, TLC

\* ------------------------------------------------------- program constants

\* for i in range(12): one MaterialImageLabel per i  (_build_right_column)
GalleryItemCount == 12
\* for i in range(1, 25): the mock scan's file list  (scan_directory)
ScanFileCount == 24
\* QSlider range and the text check of the hue panel
HueMin == -180
HueMax == 180
\* QSlider range of every editor parameter
SliderMin == -100
SliderMax == 100
\* the three tabs of MainWindow.tab_widget
TabCount == 3

\* ------------------------------------------------------------------ inputs

None == "None"
\* the reference held by a panel that has no current image
NoImage == [gen |-> 0, idx |-> -1]
NoDirectoryText == "No directory selected"

\* What QFileDialog.getExistingDirectory returns: a directory, or "" when
\* the dialog is cancelled.
Dirs == {"/photos"}
DialogResults == Dirs \cup {""}

\* Indices handed to select_image: negative, with a tile and a record,
\* with a record of a scanned directory but no tile, beyond every list.
SelectIndices == {-1, 0, 1, GalleryItemCount, ScanFileCount}

\* Lengths of the path lists handed to FileManager.load_images directly.
\* Tiles clicked while editing
EditingIndices == {0, 1}
LoadCounts == {0, 1}

\* Names handed to apply_preset_to_selected: a preset button's and a name no
\* catalogue entry has.
PresetNames == {"Studio Light", "Nonexistent"}

\* The sliders the editor builds (_build_left_column, section_configs).
EditorParameters ==
    {"Brightness", "Contrast", "Saturation", "Exposure",
     "Highlights", "Shadows", "Whites", "Blacks",
     "Clarity", "Texture", "Vibrance", "Dehaze"}

\* (parameter, value) pairs handed to on_slider_changed: in range, out of
\* the slider's range, and a parameter no slider has.
SliderInputs == {<<"Brightness", 20>>, <<"Brightness", 500>>, <<"Glow", 20>>}

\* (slider, value) pairs the editor's sliders are set to: within the range
\* and beyond either end of it
SliderMoves == {<<"Brightness", 20>>, <<"Brightness", 500>>, <<"Brightness", -500>>}

\* (name, settings) pairs handed to save_preset: a new name and one of the
\* catalogue's
SavedPresets == {<<"Custom", [brightness |-> 1]>>,
                 <<"Studio Light", [brightness |-> 2]>>}

\* whether the backend request of a live adjustment raises
BackendFails == BOOLEAN

\* Values handed to update_hue, and texts typed into the hue value field.
HueInputs == {90, 200}
HueTexts == {<<"9", "0">>, <<"2", "0", "0">>}

\* Positions the hue slider is moved to, and texts typed into its value
\* field while the panels' controls are used: in the range, with a leading
\* zero, negative, beyond the range on either side, not a number, empty
HueMoves == {90, -180}
HueEntries == {<<"9", "0">>, <<"0", "9", "0">>, <<"-", "5">>, <<"2", "0", "0">>,
               <<"-", "2", "0", "0">>, <<"x">>, <<>>}

\* The editor slider moved while the panels' controls are used
PanelSliderMoves == {<<"Brightness", 20>>}

\* --------------------------------------------------------- python helpers

EmptyMap == [k \in {} |-> 0]

\* dict[key] = value
DictSet(d, key, value) ==
    [k \in (DOMAIN d) \cup {key} |-> IF k = key THEN value ELSE d[k]]

\* list[index] raises IndexError unless -len <= index < len
PyIndexOk(s, index) == -Len(s) <= index /\ index < Len(s)

\* position (1-based) of list[index], negative indices counting from the end
PyPos(s, index) == IF index < 0 THEN Len(s) + index + 1 ELSE index + 1

\* A text is the sequence of its characters.
Digits == <<"0", "1", "2", "3", "4", "5", "6", "7", "8", "9">>

IsDigit(c) == \E d \in 1..10 : Digits[d] = c

DigitValue(c) == (CHOOSE d \in 1..10 : Digits[d] = c) - 1

RECURSIVE NatStr(_)
NatStr(n) ==
    IF n < 10 THEN <<Digits[n + 1]>> ELSE Append(NatStr(n \div 10), Digits[(n % 10) + 1])

\* str(value) of an int
Str(value) == IF value < 0 THEN <<"-">> \o NatStr(-value) ELSE NatStr(value)

RECURSIVE DigitsValue(_, _)
DigitsValue(text, acc) ==
    IF text = <<>> THEN acc
    ELSE DigitsValue(Tail(text), acc * 10 + DigitValue(Head(text)))

\* int(text) of a text of signs, digits and letters: ok and the value, or
\* not ok where Python raises ValueError
ParseInt(text) ==
    LET signed == text # <<>> /\ Head(text) \in {"-", "+"}
        body == IF signed THEN Tail(text) ELSE text
    IN  IF body # <<>> /\ \A k \in 1..Len(body) : IsDigit(body[k])
        THEN [ok |-> TRUE,
              value |-> IF signed /\ Head(text) = "-"
                        THEN -DigitsValue(body, 0) ELSE DigitsValue(body, 0)]
        ELSE [ok |-> FALSE, value |-> 0]

VARIABLES
    headshot_data,         \* HeadshotGalleryTab.headshot_data: list of objects
    heap,                  \* the HeadshotData objects alive, by identity
    gallery_items,         \* MaterialImageLabel.selected of each tile
    presets,               \* PresetManager.presets
    editor_current,        \* EditorTab.current_image
    editor_edit_settings,  \* EditorTab.edit_settings
    hue_current,           \* HueTab.current_image
    hue_slider,            \* HueTab.hue_slider.value()
    hue_value,             \* HueTab.hue_value.text()
    current_directory,     \* MainWindow.current_directory
    dir_path_label,        \* MainWindow.dir_path_label.text()
    settings,              \* SettingsManager.settings
    tab_index,             \* MainWindow.tab_widget.currentIndex()
    page_label,            \* MainWindow.page_label.text()
    editor_sliders,        \* the editor's sliders: value and value field text
    last,                  \* the handler that ran last, with its arguments
    calls                  \* signals and backend requests it made, in order

vars == <<headshot_data, heap, gallery_items, presets, editor_current,
          editor_edit_settings, hue_current, hue_slider, hue_value,
          current_directory, dir_path_label, settings, tab_index, page_label,
          editor_sliders, last, calls>>

\* ----------------------------------------------------------- data holders

\* HeadshotData.__init__
HeadshotData(file_path) ==
    [file_path |-> file_path, metadata |-> EmptyMap,
     is_selected |-> FALSE, edit_settings |-> EmptyMap]

\* HeadshotAPIClient.get_image_metadata: the canned metadata
GetImageMetadata(image_path) ==
    [success |-> TRUE,
     data |-> [width |-> 1920, height |-> 1080, file_size |-> 2048576,
               created_date |-> "2024-01-15", camera_model |-> "Canon EOS R5"]]

\* HeadshotAPIClient.apply_preset: the stub always succeeds
ApiApplyPreset(image, preset_name) == [success |-> TRUE, data |-> image]

\* HeadshotAPIClient.adjust_hue: the stub always succeeds
ApiAdjustHue(image, hue) == [success |-> TRUE, data |-> image]

\* Identity of a HeadshotData object: the batch of objects it was made in
\* and its index (0-based) in that batch.  The records of the gallery's
\* headshot_data are batch 1; the batches of the objects only a panel still
\* references are numbered from 2 on, youngest first.
Obj(gen, index) == [gen |-> gen, idx |-> index]

\* the objects the panels reference
Referenced(ec, hc) == {ec, hc} \ {NoImage}

\* objects still referenced once the gallery holds data and the panels hold
\* ec and hc: everything else is garbage
Live(data, ec, hc) ==
    {data[k] : k \in 1..Len(data)} \cup Referenced(ec, hc)

\* the name of object o once the superseded batches gens are renumbered in
\* their order, batch 1 keeping its number
Renamed(o, gens) ==
    IF o = NoImage \/ o.gen <= 1
    THEN o
    ELSE [o EXCEPT !.gen = 1 + Cardinality({g \in gens : g <= o.gen})]

\* the objects alive and the panels' references, garbage dropped
Collect(h, data, ec, hc) ==
    LET live == Live(data, ec, hc)
        stale == {o \in live : o.gen > 1}
        gens == {o.gen : o \in stale}
    IN  [heap |-> [n \in {Renamed(o, gens) : o \in live} |->
                     IF n.gen = 1
                     THEN h[n]
                     ELSE h[CHOOSE o \in stale : Renamed(o, gens) = n]],
         data |-> [k \in 1..Len(data) |-> Renamed(data[k], gens)],
         ec |-> Renamed(ec, gens),
         hc |-> Renamed(hc, gens)]

\* a superseded object: its batch is one older
Aged(o) == IF o = NoImage THEN o ELSE [o EXCEPT !.gen = @ + 1]

\* the handler description kept in `last`
Op(op, index, ctrl, name, value, paths) ==
    [op |-> op, index |-> index, ctrl |-> ctrl, name |-> name,
     value |-> value, paths |-> paths, result |-> None]

\* ---------------------------------------------------------------- gallery

\* MainWindow.get_selected_images, over a given collection
SelectedOf(data, h) == SelectSeq(data, LAMBDA o : h[o].is_selected)

get_selected_images == SelectedOf(headshot_data, heap)

\* the bounds check without its test against the record list
SelectImageOutOfBoundsTilesOnly(index, items, data) ==
    index < 0 \/ index >= Len(items)

\* select_image's guard: the index has no tile or no record
SelectImageOutOfBounds(index, items, data) ==
    index < 0 \/ index >= Len(items) \/ index >= Len(data)

\* select_image without Ctrl: clear every record and its tile, then select.
\* An IndexError ends the handler where it is raised (the except clause
\* logs it).
SelectImageSingle(index, data, h, items) ==
    LET cleared == {data[k] : k \in 1..Len(data)}
        h0 == [o \in DOMAIN h |->
                 IF o \in cleared THEN [h[o] EXCEPT !.is_selected = FALSE] ELSE h[o]]
        items0 == [k \in 1..Len(items) |-> IF k <= Len(data) THEN FALSE ELSE items[k]]
    IN  IF ~PyIndexOk(data, index)
        THEN [heap |-> h0, items |-> items0]
        ELSE LET o == data[PyPos(data, index)]
                 h1 == [h0 EXCEPT ![o].is_selected = TRUE]
             IN  IF ~PyIndexOk(items0, index)
                 THEN [heap |-> h1, items |-> items0]
                 ELSE [heap |-> h1,
                       items |-> [items0 EXCEPT ![PyPos(items0, index)] = TRUE]]

\* the Ctrl branch taking the single-selection path
SelectImageToggleExclusive(index, data, h, items) ==
    SelectImageSingle(index, data, h, items)

\* select_image with Ctrl held: toggle the record and its tile
SelectImageToggle(index, data, h, items) ==
    IF ~PyIndexOk(data, index)
    THEN [heap |-> h, items |-> items]
    ELSE LET o == data[PyPos(data, index)]
             current_state == h[o].is_selected
             h1 == [h EXCEPT ![o].is_selected = ~current_state]
         IN  IF ~PyIndexOk(items, index)
             THEN [heap |-> h1, items |-> items]
             ELSE [heap |-> h1,
                   items |-> [items EXCEPT ![PyPos(items, index)] = ~current_state]]

\* HeadshotGalleryTab.select_image; ctrl: keyboardModifiers() == ControlModifier
select_image(index, ctrl, data, h, items) ==
    IF SelectImageOutOfBounds(index, items, data)
    THEN [heap |-> h, items |-> items]
    ELSE IF ctrl
         THEN SelectImageToggle(index, data, h, items)
         ELSE SelectImageSingle(index, data, h, items)

\* a click on a tile that also makes the clicked record the editor's
\* current image
SelectImageSettingCurrent(index, ctrl) ==
    LET r == select_image(index, ctrl, headshot_data, heap, gallery_items)
    IN  /\ heap' = r.heap
        /\ gallery_items' = r.items
        /\ editor_current' = IF SelectImageOutOfBounds(index, gallery_items, headshot_data)
                             THEN editor_current
                             ELSE headshot_data[index + 1]
        /\ last' = Op("select_image", index, ctrl, None, 0, <<>>)
        /\ calls' = <<>>
        /\ UNCHANGED <<headshot_data, presets, editor_edit_settings,
                       hue_current, hue_slider, hue_value, current_directory,
                       dir_path_label, settings, tab_index, page_label,
                       editor_sliders>>

SelectImage(index, ctrl) ==
    LET r == select_image(index, ctrl, headshot_data, heap, gallery_items)
    IN  /\ heap' = r.heap
        /\ gallery_items' = r.items
        /\ last' = Op("select_image", index, ctrl, None, 0, <<>>)
        /\ calls' = <<>>
        /\ UNCHANGED <<headshot_data, presets, editor_current, editor_edit_settings,
                       hue_current, hue_slider, hue_value, current_directory,
                       dir_path_label, settings, tab_index, page_label, editor_sliders>>

\* ------------------------------------------------------------------ loads

\* FileManager.scan_directory: the mock file list; a path is the pair of
\* the directory and the file's number
scan_directory(directory_path) ==
    [i \in 1..ScanFileCount |-> <<directory_path, i>>]

\* on_images_loaded assigning only a non-empty list
on_images_loaded_keep_on_empty(images, data) ==
    IF images # <<>> THEN images ELSE data

\* HeadshotGalleryTab.on_images_loaded: the new headshot_data
on_images_loaded(images, data) == IF images # <<>> THEN images ELSE <<>>

\* FileManager.load_images, with both listeners of files_loaded (the gallery
\* tab, then MainWindow.on_images_loaded, which forwards to the gallery tab).
\* data, h, ec, hc: the state it runs in.
load_images(file_paths, data, h, ec, hc) ==
    LET images == [k \in 1..Len(file_paths) |-> Obj(1, k - 1)]
        made == [o \in {images[k] : k \in 1..Len(images)} |->
                   [HeadshotData(file_paths[o.idx + 1])
                      EXCEPT !.metadata = GetImageMetadata(file_paths[o.idx + 1]).data]]
        old_data == [k \in 1..Len(data) |-> Aged(data[k])]
        data1 == on_images_loaded(images, old_data)
        data2 == on_images_loaded(images, data1)
        all == [o \in Live(data2, Aged(ec), Aged(hc)) |->
                  IF o.gen = 1 THEN made[o] ELSE h[[o EXCEPT !.gen = @ - 1]]]
        kept == Collect(all, data2, Aged(ec), Aged(hc))
    IN  [data |-> kept.data, heap |-> kept.heap, ec |-> kept.ec, hc |-> kept.hc,
         calls |-> [k \in 1..Len(file_paths) |->
                      <<"scan_progress", (k * 100) \div Len(file_paths)>>]
                   \o << <<"files_loaded", Len(images)>> >>]

\* APIService.load_directory
load_directory(directory_path, data, h, ec, hc) ==
    LET files == scan_directory(directory_path)
        r == load_images(files, data, h, ec, hc)
    IN  [data |-> r.data, heap |-> r.heap, ec |-> r.ec, hc |-> r.hc,
         calls |-> << <<"directory_scanned", Len(files)>> >> \o r.calls
                   \o << <<"operation_completed", "load_directory">> >>]

\* FileManager.load_images called with a list of n paths
LoadImages(directory, n) ==
    /\ LET file_paths == SubSeq(scan_directory(directory), 1, n)
           r == load_images(file_paths, headshot_data, heap,
                            editor_current, hue_current)
       IN  /\ headshot_data' = r.data
           /\ heap' = r.heap
           /\ editor_current' = r.ec
           /\ hue_current' = r.hc
           /\ calls' = r.calls
           /\ last' = Op("load_images", 0, FALSE, None, 0, file_paths)
    /\ UNCHANGED <<gallery_items, presets, editor_edit_settings,
                   hue_slider, hue_value, current_directory,
                   dir_path_label, settings, tab_index, page_label, editor_sliders>>

\* set_setting saving before it writes the value
set_setting_saving_first(s, key, value) ==
    [settings |-> [s EXCEPT ![key] = value],
     calls |-> << <<"save_settings", s>> >>]

\* SettingsManager.set_setting: the write, then save_settings
set_setting(s, key, value) ==
    [settings |-> [s EXCEPT ![key] = value],
     calls |-> << <<"save_settings", [s EXCEPT ![key] = value]>> >>]

\* choose_directory forgetting the directory when the dialog is cancelled
choose_directory_forgetting(directory, current, label) ==
    IF directory # ""
    THEN [current_directory |-> directory, dir_path_label |-> directory]
    ELSE [current_directory |-> None, dir_path_label |-> label]

\* MainWindow.choose_directory: current_directory and the label's text
\* afterwards
choose_directory(directory, current, label) ==
    IF directory # ""
    THEN [current_directory |-> directory, dir_path_label |-> directory]
    ELSE [current_directory |-> current, dir_path_label |-> label]

\* MainWindow.choose_directory; directory: what the dialog returned
ChooseDirectory(directory) ==
    IF directory # ""
    THEN /\ current_directory' =
              choose_directory(directory, current_directory,
                               dir_path_label).current_directory
         /\ dir_path_label' =
              choose_directory(directory, current_directory,
                               dir_path_label).dir_path_label
         /\ LET w == set_setting(settings, "last_directory", directory)
                r == load_directory(directory, headshot_data, heap,
                                    editor_current, hue_current)
            IN  /\ settings' = w.settings
                /\ headshot_data' = r.data
                /\ heap' = r.heap
                /\ editor_current' = r.ec
                /\ hue_current' = r.hc
                /\ calls' = w.calls \o r.calls
         /\ last' = Op("choose_directory", 0, FALSE, directory, 0,
                       scan_directory(directory))
         /\ UNCHANGED <<gallery_items, presets, editor_edit_settings,
                        hue_slider, hue_value, tab_index, page_label, editor_sliders>>
    ELSE /\ current_directory' =
              choose_directory(directory, current_directory,
                               dir_path_label).current_directory
         /\ dir_path_label' =
              choose_directory(directory, current_directory,
                               dir_path_label).dir_path_label
         /\ last' = Op("choose_directory", 0, FALSE, directory, 0, <<>>)
         /\ calls' = <<>>
         /\ UNCHANGED <<headshot_data, heap, gallery_items, presets, editor_current,
                        editor_edit_settings, hue_current, hue_slider, hue_value,
                        settings, tab_index, page_label, editor_sliders>>

\* ---------------------------------------------------------------- presets

\* apply_preset without the catalogue lookup
apply_preset_unchecked(preset_name, image, catalogue, h) ==
    [result |-> ApiApplyPreset(image, preset_name).success, heap |-> h,
     calls |-> << <<"api_apply_preset", image, preset_name>>,
                  <<"preset_applied", preset_name>> >>]

\* PresetManager.apply_preset on one image: what it returns, the objects
\* afterwards, and what it requested and emitted
apply_preset(preset_name, image, catalogue, h) ==
    IF preset_name \notin DOMAIN catalogue
    THEN [result |-> FALSE, heap |-> h, calls |-> <<>>]
    ELSE LET preset_settings == catalogue[preset_name]
             response == ApiApplyPreset(image, preset_name)
         IN  IF response.success
             THEN [result |-> TRUE, heap |-> h,
                   calls |-> << <<"api_apply_preset", image, preset_name>>,
                                <<"preset_applied", preset_name>> >>]
             ELSE [result |-> FALSE, heap |-> h,
                   calls |-> << <<"api_apply_preset", image, preset_name>> >>]

\* the for loop of apply_preset_to_selected over selected_images[k..]
RECURSIVE ApplyPresetLoop(_, _, _, _, _)
ApplyPresetLoop(preset_name, selected_images, k, catalogue, h) ==
    IF k > Len(selected_images)
    THEN [heap |-> h, calls |-> <<>>]
    ELSE LET one == apply_preset(preset_name, selected_images[k], catalogue, h)
             rest == ApplyPresetLoop(preset_name, selected_images, k + 1,
                                     catalogue, one.heap)
         IN  [heap |-> rest.heap,
              calls |-> << <<"apply_preset", preset_name, selected_images[k],
                             one.result>> >> \o one.calls \o rest.calls]

\* HeadshotGalleryTab.apply_preset_to_selected
ApplyPresetToSelected(preset_name) ==
    LET r == ApplyPresetLoop(preset_name, get_selected_images, 1, presets, heap)
    IN  /\ heap' = r.heap
        /\ calls' = r.calls
        /\ last' = Op("apply_preset_to_selected", 0, FALSE, preset_name, 0, <<>>)
        /\ UNCHANGED <<headshot_data, gallery_items, presets, editor_current,
                       editor_edit_settings, hue_current, hue_slider, hue_value,
                       current_directory, dir_path_label, settings, tab_index, page_label, editor_sliders>>

\* ------------------------------------------------------------- processing

\* ImageProcessor.process_single_image: started, progress 0, 20, .. 100,
\* finished
process_single_image(image, edit) ==
    << <<"process_single_image", image, edit>>, <<"processing_started">> >>
    \o [k \in 1..6 |-> <<"processing_progress", (k - 1) * 20>>]
    \o << <<"processing_finished", image>> >>

\* ImageProcessor.process_batch, from the i-th image (0-based) on
RECURSIVE ProcessBatchFrom(_, _, _)
ProcessBatchFrom(images, edit, i) ==
    IF i >= Len(images)
    THEN <<>>
    ELSE << <<"processing_progress", ((i + 1) * 100) \div Len(images)>> >>
         \o process_single_image(images[i + 1], edit)
         \o ProcessBatchFrom(images, edit, i + 1)

process_batch(images, edit) ==
    << <<"process_batch", Len(images)>> >> \o ProcessBatchFrom(images, edit, 0)

\* apply_batch_edits announcing the completion before the batch runs
apply_batch_edits_completing_first(images, edit) ==
    << <<"apply_batch_edits", Len(images)>>,
       <<"operation_completed", "batch_edit">> >>
    \o process_batch(images, edit)

\* APIService.apply_batch_edits
apply_batch_edits(images, edit) ==
    << <<"apply_batch_edits", Len(images)>> >>
    \o process_batch(images, edit)
    \o << <<"operation_completed", "batch_edit">> >>

GallerySettings ==
    [filter_type |-> "example_filter", sort_order |-> "date_desc",
     enable_feature |-> TRUE]

\* submit_gallery_settings without its test of the selection
submit_gallery_settings_unguarded(selected_images) ==
    apply_batch_edits(selected_images, GallerySettings)

\* HeadshotGalleryTab.submit_gallery_settings: the requests it makes
submit_gallery_settings(selected_images) ==
    IF selected_images # <<>>
    THEN apply_batch_edits(selected_images, GallerySettings)
    ELSE <<>>

SubmitGallerySettings ==
    /\ calls' = submit_gallery_settings(get_selected_images)
    /\ last' = Op("submit_gallery_settings", 0, FALSE, None, 0, <<>>)
    /\ UNCHANGED <<headshot_data, heap, gallery_items, presets, editor_current,
                   editor_edit_settings, hue_current, hue_slider, hue_value,
                   current_directory, dir_path_label, settings, tab_index, page_label, editor_sliders>>

\* ----------------------------------------------------------------- editor

\* on_slider_changed requesting the update before it writes the mapping
on_slider_changed_request_first(parameter_name, value, edit, current_image, fails) ==
    LET settings_arg == DictSet(EmptyMap, parameter_name, value)
        write == << <<"edit_settings", parameter_name, value>> >>
    IN  IF current_image # NoImage /\ fails
        THEN [result |-> None, edit_settings |-> edit,
              calls |-> << <<"process_single_image", current_image, settings_arg>>,
                           <<"logger.error", "on_slider_changed">> >>]
        ELSE [result |-> None,
              edit_settings |-> DictSet(edit, parameter_name, value),
              calls |-> (IF current_image # NoImage
                         THEN process_single_image(current_image, settings_arg)
                         ELSE <<>>) \o write]

\* EditorTab.on_slider_changed: the panel's edit_settings afterwards and, in
\* order, the write of the mapping and the requests made.  fails: the
\* request raises, which the handler's except clause catches and logs.
on_slider_changed(parameter_name, value, edit, current_image, fails) ==
    LET settings_arg == DictSet(EmptyMap, parameter_name, value)
        write == << <<"edit_settings", parameter_name, value>> >>
    IN  [result |-> None,
         edit_settings |-> DictSet(edit, parameter_name, value),
         calls |-> write \o
                   (IF current_image = NoImage
                    THEN <<>>
                    ELSE IF fails
                         THEN << <<"process_single_image", current_image, settings_arg>>,
                                 <<"logger.error", "on_slider_changed">> >>
                         ELSE process_single_image(current_image, settings_arg))]

OnSliderChanged(parameter_name, value, fails) ==
    LET r == on_slider_changed(parameter_name, value, editor_edit_settings,
                               editor_current, fails)
    IN  /\ editor_edit_settings' = r.edit_settings
        /\ calls' = r.calls
        /\ last' = [Op("on_slider_changed", 0, fails, parameter_name, value, <<>>)
                      EXCEPT !.result = r.result]
        /\ UNCHANGED <<headshot_data, heap, gallery_items, presets, editor_current,
                       hue_current, hue_slider, hue_value, current_directory,
                       dir_path_label, settings, tab_index, page_label, editor_sliders>>

\* QSlider.setValue on an editor slider without the slider's range
editor_slider_set_value_unbounded(position, value) ==
    [value |-> value, changed |-> value # position]

\* QSlider.setValue on an editor slider (range SliderMin..SliderMax): the
\* value it takes and whether valueChanged is emitted
editor_slider_set_value(position, value) ==
    LET v == IF value < SliderMin THEN SliderMin
             ELSE IF value > SliderMax THEN SliderMax ELSE value
    IN  [value |-> v, changed |-> v # position]

\* An editor slider is set to value: the listeners of its valueChanged are
\* on_slider_changed for its parameter, then _update_slider_value_field
EditorSliderMoved(param, value, fails) ==
    LET m == editor_slider_set_value(editor_sliders[param].value, value)
        r == on_slider_changed(param, m.value, editor_edit_settings,
                               editor_current, fails)
    IN  /\ editor_sliders' =
              IF m.changed
              THEN [editor_sliders EXCEPT ![param] =
                      [value |-> m.value, text |-> Str(m.value)]]
              ELSE editor_sliders
        /\ editor_edit_settings' =
              IF m.changed THEN r.edit_settings ELSE editor_edit_settings
        /\ calls' = IF m.changed THEN r.calls ELSE <<>>
        /\ last' = Op(IF m.changed THEN "on_slider_changed" ELSE "slider_kept",
                      0, fails, param, m.value, <<>>)
        /\ UNCHANGED <<headshot_data, heap, gallery_items, presets, editor_current,
                       hue_current, hue_slider, hue_value, current_directory,
                       dir_path_label, settings, tab_index, page_label>>

\* HeadshotAPIClient.save_edited_image: the stub always succeeds
ApiSaveEditedImage(image, h) ==
    [success |-> TRUE, data |-> [saved_path |-> h[image].file_path]]

\* FileManager.save_image: what it returns and the signals it emits
save_image(image, h) ==
    LET response == ApiSaveEditedImage(image, h)
    IN  IF response.success
        THEN [result |-> TRUE,
              calls |-> << <<"save_edited_image", image>>,
                           <<"file_saved", response.data.saved_path>> >>]
        ELSE [result |-> FALSE, calls |-> << <<"save_edited_image", image>> >>]

\* save_current_edits writing the edits to every record
save_current_edits_to_all(edit, current_image, h) ==
    IF current_image # NoImage
    THEN LET h1 == [o \in DOMAIN h |-> [h[o] EXCEPT !.edit_settings = edit]]
         IN  [heap |-> h1, calls |-> save_image(current_image, h1).calls]
    ELSE [heap |-> h, calls |-> <<>>]

\* EditorTab.save_current_edits: the objects and the requests made
save_current_edits(edit, current_image, h) ==
    IF current_image # NoImage
    THEN LET h1 == [h EXCEPT ![current_image].edit_settings = edit]
         IN  [heap |-> h1, calls |-> save_image(current_image, h1).calls]
    ELSE [heap |-> h, calls |-> <<>>]

SaveCurrentEdits ==
    LET r == save_current_edits(editor_edit_settings, editor_current, heap)
    IN  /\ heap' = r.heap
        /\ calls' = r.calls
        /\ last' = Op("save_current_edits", 0, FALSE, None, 0, <<>>)
        /\ UNCHANGED <<headshot_data, gallery_items, presets, editor_current,
                       editor_edit_settings, hue_current, hue_slider, hue_value,
                       current_directory, dir_path_label, settings, tab_index,
                       page_label, editor_sliders>>

\* HeadshotAPIClient.get_similar_images: the stub always finds three images
\* (data: how many)
ApiGetSimilarImages(image) == [success |-> TRUE, data |-> 3]

\* apply_similar_settings without its test of the current image
apply_similar_settings_unguarded(current_image) ==
    << <<"get_similar_images", current_image>> >>

\* EditorTab.apply_similar_settings: the request it makes
apply_similar_settings(current_image) ==
    IF current_image # NoImage
    THEN LET response == ApiGetSimilarImages(current_image)
         IN  << <<"get_similar_images", current_image>> >>
             \o (IF response.success
                 THEN << <<"logger.info", "similar", response.data>> >>
                 ELSE <<>>)
    ELSE <<>>

ApplySimilarSettings ==
    /\ calls' = apply_similar_settings(editor_current)
    /\ last' = Op("apply_similar_settings", 0, FALSE, None, 0, <<>>)
    /\ UNCHANGED <<headshot_data, heap, gallery_items, presets, editor_current,
                   editor_edit_settings, hue_current, hue_slider, hue_value,
                   current_directory, dir_path_label, settings, tab_index,
                   page_label, editor_sliders>>

\* EditorTab.reset_editor_settings: the panel's edit_settings and the objects
reset_editor_settings(current_image, h) ==
    [edit_settings |-> EmptyMap,
     heap |-> IF current_image # NoImage
              THEN [h EXCEPT ![current_image].edit_settings = EmptyMap]
              ELSE h]

ResetEditorSettings ==
    LET r == reset_editor_settings(editor_current, heap)
    IN  /\ editor_edit_settings' = r.edit_settings
        /\ heap' = r.heap
        /\ calls' = <<>>
        /\ last' = Op("reset_editor_settings", 0, FALSE, None, 0, <<>>)
        /\ UNCHANGED <<headshot_data, gallery_items, presets, editor_current,
                       hue_current, hue_slider, hue_value, current_directory,
                       dir_path_label, settings, tab_index, page_label, editor_sliders>>

\* -------------------------------------------------------------------- hue
\* The hue controls as hs = [slider, text, calls]: the slider's value, the
\* value field's text and the requests made so far by the running cascade.

RECURSIVE update_hue(_, _, _), LineEditSetText(_, _, _),
          update_slider_from_text(_, _, _), SliderSetValue(_, _, _)

\* QSlider.setValue on the hue slider: the value is kept in the range; a
\* change emits valueChanged to update_hue, then _update_slider_value_field
SliderSetValue(hs, value, current_image) ==
    LET v == IF value < HueMin THEN HueMin ELSE IF value > HueMax THEN HueMax ELSE value
    IN  IF v = hs.slider
        THEN hs
        ELSE LET h0 == [hs EXCEPT !.slider = v,
                                  !.calls = Append(@, <<"valueChanged", v>>)]
                 h1 == update_hue(h0, v, current_image)
             IN  LineEditSetText(h1, Str(v), current_image)

\* update_slider_from_text without its test of the range
update_slider_from_text_unchecked(hs, text, current_image) ==
    LET parsed == ParseInt(text)
    IN  IF parsed.ok
        THEN SliderSetValue(hs, parsed.value, current_image)
        ELSE hs

\* HueTab.update_slider_from_text
update_slider_from_text(hs, text, current_image) ==
    LET parsed == ParseInt(text)
    IN  IF parsed.ok /\ HueMin <= parsed.value /\ parsed.value <= HueMax
        THEN SliderSetValue(hs, parsed.value, current_image)
        ELSE hs

\* QLineEdit.setText on the value field: a change emits textChanged to
\* update_slider_from_text
LineEditSetText(hs, text, current_image) ==
    IF text = hs.text
    THEN hs
    ELSE update_slider_from_text([hs EXCEPT !.text = text], text, current_image)

\* HueTab.update_hue
update_hue(hs, value, current_image) ==
    LET h1 == LineEditSetText(hs, Str(value), current_image)
    IN  IF current_image # NoImage
        THEN [h1 EXCEPT !.calls = Append(@, <<"adjust_hue", current_image, value>>)]
        ELSE h1

\* update_hue called with a value
UpdateHue(value) ==
    LET r == update_hue([slider |-> hue_slider, text |-> hue_value, calls |-> <<>>],
                        value, hue_current)
    IN  /\ hue_slider' = r.slider
        /\ hue_value' = r.text
        /\ calls' = r.calls
        /\ last' = Op("update_hue", 0, FALSE, "hue", value, <<>>)
        /\ UNCHANGED <<headshot_data, heap, gallery_items, presets, editor_current,
                       editor_edit_settings, hue_current, current_directory,
                       dir_path_label, settings, tab_index, page_label, editor_sliders>>

\* the user types text into the value field
HueTextEdited(text) ==
    LET r == LineEditSetText([slider |-> hue_slider, text |-> hue_value,
                              calls |-> <<>>], text, hue_current)
    IN  /\ hue_slider' = r.slider
        /\ hue_value' = r.text
        /\ calls' = r.calls
        /\ last' = Op("hue_text_edited", 0, FALSE, text, 0, <<>>)
        /\ UNCHANGED <<headshot_data, heap, gallery_items, presets, editor_current,
                       editor_edit_settings, hue_current, current_directory,
                       dir_path_label, settings, tab_index, page_label, editor_sliders>>

\* the hue slider is set to value by the user
HueSliderMoved(value) ==
    LET r == SliderSetValue([slider |-> hue_slider, text |-> hue_value,
                             calls |-> <<>>], value, hue_current)
    IN  /\ hue_slider' = r.slider
        /\ hue_value' = r.text
        /\ calls' = r.calls
        /\ last' = Op("hue_slider_moved", 0, FALSE, "hue", value, <<>>)
        /\ UNCHANGED <<headshot_data, heap, gallery_items, presets, editor_current,
                       editor_edit_settings, hue_current, current_directory,
                       dir_path_label, settings, tab_index, page_label,
                       editor_sliders>>

\* HueTab.reset_hue
ResetHue ==
    LET r == SliderSetValue([slider |-> hue_slider, text |-> hue_value,
                             calls |-> <<>>], 0, hue_current)
    IN  /\ hue_slider' = r.slider
        /\ hue_value' = r.text
        /\ calls' = r.calls
        /\ last' = Op("reset_hue", 0, FALSE, "hue", 0, <<>>)
        /\ UNCHANGED <<headshot_data, heap, gallery_items, presets, editor_current,
                       editor_edit_settings, hue_current, current_directory,
                       dir_path_label, settings, tab_index, page_label,
                       editor_sliders>>

\* ------------------------------------------------------------ main window

\* load_image_settings keeping the pending edits
load_image_settings_keep_pending(image, h, edit) == edit

\* EditorTab.set_current_image with load_image_settings: the panel's
\* edit_settings afterwards
load_image_settings(image, h, edit) ==
    IF image # NoImage THEN h[image].edit_settings ELSE edit

\* EditorTab.set_current_image: the panel's current image and edit_settings
editor_set_current_image(image_data, h, edit) ==
    [current |-> image_data,
     edit_settings |-> load_image_settings(image_data, h, edit)]

\* HueTab.set_current_image: the panel's current image
hue_set_current_image(image_data) == image_data

\* set_current_image_for_editing reaching the editor panel only
set_current_image_for_editing_editor_only(image_data, ps, h) ==
    LET e == editor_set_current_image(image_data, h, ps.edit)
    IN  [ec |-> e.current, hc |-> ps.hc, edit |-> e.edit_settings]

\* MainWindow.set_current_image_for_editing: the panels ps = [ec, hc, edit]
\* afterwards
set_current_image_for_editing(image_data, ps, h) ==
    LET e == editor_set_current_image(image_data, h, ps.edit)
    IN  [ec |-> e.current, hc |-> hue_set_current_image(image_data),
         edit |-> e.edit_settings]

\* MainWindow.load_headshots
LoadHeadshots ==
    LET selected_images == get_selected_images
        ps0 == [ec |-> editor_current, hc |-> hue_current,
                edit |-> editor_edit_settings]
        ps == IF selected_images # <<>>
              THEN set_current_image_for_editing(selected_images[1], ps0, heap)
              ELSE ps0
        reload == current_directory = None /\ dir_path_label # NoDirectoryText
        kept == Collect(heap, headshot_data, ps.ec, ps.hc)
    IN  /\ editor_edit_settings' = ps.edit
        /\ IF reload
           THEN LET r == load_directory(dir_path_label, headshot_data,
                                        kept.heap, kept.ec, kept.hc)
                IN  /\ current_directory' = dir_path_label
                    /\ headshot_data' = r.data
                    /\ heap' = r.heap
                    /\ editor_current' = r.ec
                    /\ hue_current' = r.hc
                    /\ calls' = r.calls
           ELSE /\ heap' = kept.heap
                /\ editor_current' = kept.ec
                /\ hue_current' = kept.hc
                /\ calls' = <<>>
                /\ UNCHANGED <<current_directory, headshot_data>>
        /\ last' = Op("load_headshots", 0, FALSE, None, 0, <<>>)
        /\ UNCHANGED <<gallery_items, presets, hue_slider, hue_value,
                       dir_path_label, settings, tab_index, page_label, editor_sliders>>

\* -------------------------------------------------------------- catalogue

\* the presets PresetManager.load_presets installs
MockPresets ==
    [n \in {"Portrait Enhance", "Studio Light", "Natural Look"} |->
       CASE n = "Portrait Enhance" -> [brightness |-> 10, contrast |-> 15, saturation |-> 5]
         [] n = "Studio Light" -> [brightness |-> 20, contrast |-> 10, warmth |-> 8]
         [] n = "Natural Look" -> [brightness |-> 5, contrast |-> 5, saturation |-> 2]]

\* PresetManager.load_presets: the catalogue afterwards and the signal
load_presets(catalogue) ==
    [presets |-> MockPresets,
     calls |-> << <<"load_presets">>, <<"presets_loaded", DOMAIN MockPresets>> >>]

\* PresetManager.save_preset: the catalogue afterwards and the signal
save_preset(preset_name, preset_settings, catalogue) ==
    [result |-> TRUE,
     presets |-> [n \in (DOMAIN catalogue) \cup {preset_name} |->
                    IF n = preset_name THEN preset_settings ELSE catalogue[n]],
     calls |-> << <<"preset_saved", preset_name>> >>]

\* APIService.initialize: SettingsManager.load_settings (a stub that leaves
\* the settings as they are), load_presets, then service_ready
initialize(catalogue) ==
    [result |-> TRUE, presets |-> load_presets(catalogue).presets,
     calls |-> << <<"load_settings">> >> \o load_presets(catalogue).calls
               \o << <<"service_ready">> >>]

LoadPresets ==
    LET r == load_presets(presets)
    IN  /\ presets' = r.presets
        /\ calls' = r.calls
        /\ last' = Op("load_presets", 0, FALSE, None, 0, <<>>)
        /\ UNCHANGED <<headshot_data, heap, gallery_items, editor_current,
                       editor_edit_settings, hue_current, hue_slider, hue_value,
                       current_directory, dir_path_label, settings, tab_index,
                       page_label, editor_sliders>>

SavePreset(preset_name, preset_settings) ==
    LET r == save_preset(preset_name, preset_settings, presets)
    IN  /\ presets' = r.presets
        /\ calls' = r.calls
        /\ last' = [Op("save_preset", 0, FALSE, preset_name, 0, <<>>)
                      EXCEPT !.result = r.result]
        /\ UNCHANGED <<headshot_data, heap, gallery_items, editor_current,
                       editor_edit_settings, hue_current, hue_slider, hue_value,
                       current_directory, dir_path_label, settings, tab_index,
                       page_label, editor_sliders>>

Initialize ==
    LET r == initialize(presets)
    IN  /\ presets' = r.presets
        /\ calls' = r.calls
        /\ last' = [Op("initialize", 0, FALSE, None, 0, <<>>)
                      EXCEPT !.result = r.result]
        /\ UNCHANGED <<headshot_data, heap, gallery_items, editor_current,
                       editor_edit_settings, hue_current, hue_slider, hue_value,
                       current_directory, dir_path_label, settings, tab_index,
                       page_label, editor_sliders>>

\* ------------------------------------------------------------------- tabs

\* on_tab_changed clearing the panel's current image when nothing is selected
on_tab_changed_clearing(index, selected_images, ps, h) ==
    IF index = 1
    THEN IF selected_images # <<>>
         THEN LET e == editor_set_current_image(selected_images[1], h, ps.edit)
              IN  [ps EXCEPT !.ec = e.current, !.edit = e.edit_settings]
         ELSE [ps EXCEPT !.ec = NoImage]
    ELSE IF index = 2
         THEN [ps EXCEPT !.hc = IF selected_images # <<>>
                                THEN hue_set_current_image(selected_images[1])
                                ELSE NoImage]
         ELSE ps

\* MainWindow.on_tab_changed: the panels ps = [ec, hc, edit] afterwards
on_tab_changed(index, selected_images, ps, h) ==
    IF selected_images # <<>>
    THEN IF index = 1
         THEN LET e == editor_set_current_image(selected_images[1], h, ps.edit)
              IN  [ps EXCEPT !.ec = e.current, !.edit = e.edit_settings]
         ELSE IF index = 2
              THEN [ps EXCEPT !.hc = hue_set_current_image(selected_images[1])]
              ELSE ps
    ELSE ps

\* the text MainWindow.update_page_counter writes
PageText(current, total) == Str(current) \o <<" ", "o", "f", " ">> \o Str(total)

\* update_page_counter writing the index as it is
update_page_counter_zero_based(index) == PageText(index, TabCount)

\* MainWindow.update_page_counter
update_page_counter(index) == PageText(index + 1, TabCount)

\* QTabWidget.setCurrentIndex with the listeners of currentChanged
\* (on_tab_changed, then update_page_counter), which run only when the index
\* changes; op names the handler that called it
SetCurrentIndex(op, index) ==
    LET changed == index # tab_index /\ index \in 0..(TabCount - 1)
        ps0 == [ec |-> editor_current, hc |-> hue_current,
                edit |-> editor_edit_settings]
        ps == IF changed
              THEN on_tab_changed(index, get_selected_images, ps0, heap)
              ELSE ps0
        kept == Collect(heap, headshot_data, ps.ec, ps.hc)
    IN  /\ tab_index' = IF changed THEN index ELSE tab_index
        /\ page_label' = IF changed THEN update_page_counter(index) ELSE page_label
        /\ editor_current' = kept.ec
        /\ hue_current' = kept.hc
        /\ heap' = kept.heap
        /\ editor_edit_settings' = ps.edit
        /\ calls' = IF changed THEN << <<"currentChanged", index>> >> ELSE <<>>
        /\ last' = Op(op, index, FALSE, None, tab_index, <<>>)
        /\ UNCHANGED <<headshot_data, gallery_items, presets, hue_slider,
                       hue_value, current_directory, dir_path_label, settings,
                       editor_sliders>>

\* a click on a tab of the tab bar
TabClicked(index) == SetCurrentIndex("tab_clicked", index)

\* the home button of the footer
HomeClicked == SetCurrentIndex("home", 0)

\* MainWindow.previous_tab: the index it asks for
previous_tab(current) == IF current > 0 THEN current - 1 ELSE TabCount - 1

\* next_tab stopping at the last tab
next_tab_stopping(current) ==
    IF current < TabCount - 1 THEN current + 1 ELSE current

\* MainWindow.next_tab: the index it asks for
next_tab(current) == IF current < TabCount - 1 THEN current + 1 ELSE 0

PreviousTab == SetCurrentIndex("previous_tab", previous_tab(tab_index))

NextTab == SetCurrentIndex("next_tab", next_tab(tab_index))

Init ==
    /\ headshot_data = <<>>
    /\ heap = [o \in {} |-> HeadshotData(None)]
    /\ gallery_items = [k \in 1..GalleryItemCount |-> FALSE]
    /\ presets =
         [n \in {"Portrait Enhance", "Studio Light", "Natural Look"} |->
            CASE n = "Portrait Enhance" -> [brightness |-> 10, contrast |-> 15, saturation |-> 5]
              [] n = "Studio Light" -> [brightness |-> 20, contrast |-> 10, warmth |-> 8]
              [] n = "Natural Look" -> [brightness |-> 5, contrast |-> 5, saturation |-> 2]]
    /\ editor_current = NoImage
    /\ editor_edit_settings = EmptyMap
    /\ hue_current = NoImage
    /\ hue_slider = 0
    /\ hue_value = Str(0)
    /\ current_directory = None
    /\ dir_path_label = NoDirectoryText
    /\ settings = [last_directory |-> "", auto_save |-> TRUE,
                   preview_quality |-> "high", batch_size |-> 10, api_timeout |-> 30]
    /\ editor_sliders = [param \in EditorParameters |->
                           [value |-> 0, text |-> Str(0)]]
    /\ tab_index = 0
    /\ page_label = PageText(1, TabCount)
    /\ last = Op("init", 0, FALSE, None, 0, <<>>)
    /\ calls = initialize(EmptyMap).calls

Next ==
    \/ \E index \in SelectIndices, ctrl \in BOOLEAN : SelectImage(index, ctrl)
    \/ \E directory \in Dirs, n \in LoadCounts : LoadImages(directory, n)
    \/ \E directory \in DialogResults : ChooseDirectory(directory)
    \/ \E preset_name \in PresetNames : ApplyPresetToSelected(preset_name)
    \/ SubmitGallerySettings
    \/ \E input \in SliderInputs, fails \in BackendFails :
          OnSliderChanged(input[1], input[2], fails)
    \/ \E value \in HueInputs : UpdateHue(value)
    \/ \E text \in HueTexts : HueTextEdited(text)
    \/ LoadHeadshots

Spec == Init /\ [][Next]_vars

\* The editing workflow: the editor's pending edit_settings and the records'
\* saved ones, with load_headshots handing the editor its current image.
NextEditing ==
    \/ \E index \in EditingIndices, ctrl \in BOOLEAN : SelectImage(index, ctrl)
    \/ \E directory \in DialogResults : ChooseDirectory(directory)
    \/ LoadHeadshots
    \/ \E move \in SliderMoves, fails \in BackendFails :
          EditorSliderMoved(move[1], move[2], fails)
    \/ SaveCurrentEdits
    \/ ApplySimilarSettings
    \/ ResetEditorSettings
    \/ \E preset_name \in PresetNames : ApplyPresetToSelected(preset_name)

SpecEditing == Init /\ [][NextEditing]_vars

\* Navigation: what selects records and what hands the panels their current
\* image, tab changes included.
NextTabs ==
    \/ \E index \in EditingIndices, ctrl \in BOOLEAN : SelectImage(index, ctrl)
    \/ \E directory \in DialogResults : ChooseDirectory(directory)
    \/ LoadHeadshots
    \/ \E index \in 0..(TabCount - 1) : TabClicked(index)
    \/ HomeClicked
    \/ PreviousTab
    \/ NextTab

SpecTabs == Init /\ [][NextTabs]_vars

\* The catalogue and the persisted settings: the operations of the preset
\* manager and what writes a setting.
NextCatalogue ==
    \/ Initialize
    \/ LoadPresets
    \/ \E saved \in SavedPresets : SavePreset(saved[1], saved[2])
    \/ \E preset_name \in PresetNames \cup {"Custom"} :
          ApplyPresetToSelected(preset_name)
    \/ \E index \in EditingIndices, ctrl \in BOOLEAN : SelectImage(index, ctrl)
    \/ \E directory \in DialogResults : ChooseDirectory(directory)

SpecCatalogue == Init /\ [][NextCatalogue]_vars

\* The panels' controls: the editor's slider and buttons and the hue
\* slider, value field and reset button, with and without a current image.
NextPanels ==
    \/ \E ctrl \in BOOLEAN : SelectImage(0, ctrl)
    \/ \E directory \in Dirs : ChooseDirectory(directory)
    \/ LoadHeadshots
    \/ \E move \in PanelSliderMoves, fails \in BackendFails :
          EditorSliderMoved(move[1], move[2], fails)
    \/ SaveCurrentEdits
    \/ ApplySimilarSettings
    \/ \E value \in HueMoves : HueSliderMoved(value)
    \/ \E text \in HueEntries : HueTextEdited(text)
    \/ ResetHue

SpecPanels == Init /\ [][NextPanels]_vars

\* ================================================================= claims

\* the handler that ran last loaded a collection from last.paths
LoadedLast ==
    \/ last.op = "load_images"
    \/ last.op = "choose_directory" /\ last.name # ""

\* C1: right after a load of any list of paths, the empty list included, the
\* active collection is exactly the records made from those paths, one per
\* path and in order, and no record is selected.
C1_LoadReplacesCollectionAndClearsSelection ==
    LoadedLast =>
        /\ Len(headshot_data) = Len(last.paths)
        /\ \A k \in 1..Len(headshot_data) :
              /\ headshot_data[k] = Obj(1, k - 1)
              /\ heap[headshot_data[k]].file_path = last.paths[k]
        /\ get_selected_images = <<>>

\* C1 witness: an empty list was loaded after a record had been selected
\* (its tile is still highlighted).
C1_Witness ==
    /\ last.op = "load_images"
    /\ last.paths = <<>>
    /\ \E k \in 1..Len(gallery_items) : gallery_items[k]

\* C2: a click without Ctrl on any index of the collection leaves exactly
\* that record selected.
C2_SingleSelectYieldsThatRecord ==
    (/\ last.op = "select_image"
     /\ ~last.ctrl
     /\ 0 <= last.index
     /\ last.index < Len(headshot_data))
        => get_selected_images = <<headshot_data[last.index + 1]>>

\* C3: with nothing selected, Ctrl-clicks on two distinct indices of the
\* collection leave exactly those two records selected, in collection order.
C3_TwoTogglesSelectBothInOrder ==
    get_selected_images = <<>> =>
        \A i, j \in 0..(Len(headshot_data) - 1) :
            i < j =>
                LET s1 == select_image(i, TRUE, headshot_data, heap, gallery_items)
                    s2 == select_image(j, TRUE, headshot_data, s1.heap, s1.items)
                    t1 == select_image(j, TRUE, headshot_data, heap, gallery_items)
                    t2 == select_image(i, TRUE, headshot_data, t1.heap, t1.items)
                    both == <<headshot_data[i + 1], headshot_data[j + 1]>>
                IN  /\ SelectedOf(headshot_data, s2.heap) = both
                    /\ SelectedOf(headshot_data, t2.heap) = both

C5_OutOfBoundsSelectChangesNothing ==
    [][ (/\ last'.op = "select_image"
         /\ (last'.index < 0 \/ last'.index >= Len(headshot_data)))
        => heap' = heap /\ gallery_items' = gallery_items ]_vars

\* C5 witness: a click without Ctrl on an index beyond a non-empty
\* collection, while a record is selected.
C5_Witness ==
    /\ last.op = "select_image"
    /\ ~last.ctrl
    /\ last.index >= Len(headshot_data)
    /\ get_selected_images # <<>>

\* C6: every record a preset was applied to successfully holds the preset's
\* parameters in its edit_settings.
C6_PresetMergedIntoTargets ==
    \A k \in 1..Len(calls) :
        (calls[k][1] = "apply_preset" /\ calls[k][4]) =>
            LET preset_settings == presets[calls[k][2]]
                edit == heap[calls[k][3]].edit_settings
            IN  \A p \in DOMAIN preset_settings :
                    p \in DOMAIN edit /\ edit[p] = preset_settings[p]

\* C7: apply_preset returns False exactly for a name the catalogue does not
\* hold; applying such a name to the selection makes one failed call per
\* selected record, no backend request, no preset_applied signal, and
\* changes no record.
C7_UnknownPresetRejected ==
    [][ (last'.op = "apply_preset_to_selected") =>
          /\ \A k \in 1..Len(calls') :
                calls'[k][1] = "apply_preset" =>
                    calls'[k][4] = (calls'[k][2] \in DOMAIN presets)
          /\ last'.name \notin DOMAIN presets =>
                /\ heap' = heap
                /\ Len(calls') = Len(get_selected_images)
                /\ \A k \in 1..Len(calls') :
                      /\ calls'[k][1] = "apply_preset"
                      /\ calls'[k][3] = get_selected_images[k]
                      /\ calls'[k][4] = FALSE ]_vars

\* C7 witness: an unknown name was applied while a record was selected.
C7_Witness ==
    /\ last.op = "apply_preset_to_selected"
    /\ last.name \notin DOMAIN presets
    /\ get_selected_images # <<>>
    /\ calls # <<>>

\* a live adjustment with an unrecognized parameter or a value outside the
\* parameter's range
InvalidAdjustment ==
    \/ /\ last.op = "on_slider_changed"
       /\ \/ last.name \notin EditorParameters
          \/ last.value < SliderMin
          \/ last.value > SliderMax
    \/ /\ last.op = "update_hue"
       /\ (last.value < HueMin \/ last.value > HueMax)

\* C8: an invalid live adjustment returns InvalidParameter, requests nothing
\* from the backend and leaves the value out of the panel's settings.
C8_InvalidAdjustmentRejected ==
    InvalidAdjustment =>
        /\ last.result = "InvalidParameter"
        /\ calls = <<>>
        /\ last.op = "on_slider_changed" =>
              \/ last.name \notin DOMAIN editor_edit_settings
              \/ editor_edit_settings[last.name] # last.value

\* C9: submitting the gallery settings with no record selected makes no
\* request and emits no signal.
C9_EmptySubmitIsNoOp ==
    (last.op = "submit_gallery_settings" /\ get_selected_images = <<>>)
        => calls = <<>>

\* C9 witness: the settings were submitted over a loaded collection with
\* nothing selected.
C9_Witness ==
    /\ last.op = "submit_gallery_settings"
    /\ headshot_data # <<>>
    /\ get_selected_images = <<>>

\* the records of the active collection
ActiveRecords == {headshot_data[k] : k \in 1..Len(headshot_data)}

\* C11: in every reachable state the current image of the editor panel and
\* of the hue panel is unset or a record of the active collection, never a
\* record of a collection a later load has superseded.
C11_CurrentImageInActiveCollection ==
    /\ editor_current = NoImage \/ editor_current \in ActiveRecords
    /\ hue_current = NoImage \/ hue_current \in ActiveRecords

\* C12: in every reachable state the editor panel and the hue panel hold
\* the same current image: both unset, or both the same record.
C12_PanelsShareCurrentImage == editor_current = hue_current

\* the first selected record in collection order, NoImage when none is
FirstSelected ==
    IF \E k \in 1..Len(headshot_data) : heap[headshot_data[k]].is_selected
    THEN headshot_data[CHOOSE k \in 1..Len(headshot_data) :
                         /\ heap[headshot_data[k]].is_selected
                         /\ \A j \in 1..(k - 1) : ~heap[headshot_data[j]].is_selected]
    ELSE NoImage

\* C13: load_headshots sets the current image of the editor panel and of the
\* hue panel to the first selected record in collection order; with nothing
\* selected (an empty collection included) it changes neither.
C13_LoadHeadshotsPropagatesFirstSelected ==
    [][ last'.op = "load_headshots" =>
          IF FirstSelected # NoImage
          THEN /\ editor_current' = FirstSelected
               /\ hue_current' = FirstSelected
          ELSE /\ editor_current' = editor_current
               /\ hue_current' = hue_current ]_vars

\* C13 witness: load_headshots ran on the hue tab with records 0 and 1 both
\* selected, and both panels now hold record 0.
C13_Witness ==
    /\ last.op = "load_headshots"
    /\ Len(get_selected_images) = 2
    /\ editor_current = headshot_data[1]
    /\ hue_current = headshot_data[1]
    /\ tab_index = 2

\* the parameter names a record's edit_settings may hold and their ranges
RecognizedParameters == EditorParameters \cup {"hue"}

InDeclaredRange(name, value) ==
    IF name = "hue"
    THEN HueMin <= value /\ value <= HueMax
    ELSE SliderMin <= value /\ value <= SliderMax

\* C14: in every reachable state every record's edit_settings has only
\* recognized parameter names as keys and every value within the declared
\* range of its parameter.
C14_EditSettingsRecognizedAndInRange ==
    \A o \in DOMAIN heap :
        \A name \in DOMAIN heap[o].edit_settings :
            /\ name \in RecognizedParameters
            /\ InDeclaredRange(name, heap[o].edit_settings[name])

\* the position of the first entry of log named tag, 0 when there is none
FirstIndex(log, tag) ==
    IF \E k \in 1..Len(log) : log[k][1] = tag
    THEN CHOOSE k \in 1..Len(log) :
           /\ log[k][1] = tag
           /\ \A j \in 1..(k - 1) : log[j][1] # tag
    ELSE 0

\* C15: a slider change with a current image writes the new value to the
\* editor's mapping before it requests the single-parameter update, and the
\* value is in the mapping afterwards, also when the request failed.
C15_MappingWrittenBeforeRequest ==
    (last.op = "on_slider_changed" /\ editor_current # NoImage) =>
        /\ FirstIndex(calls, "edit_settings") > 0
        /\ FirstIndex(calls, "process_single_image") > 0
        /\ FirstIndex(calls, "edit_settings") < FirstIndex(calls, "process_single_image")
        /\ calls[FirstIndex(calls, "edit_settings")] =
              <<"edit_settings", last.name, last.value>>
        /\ last.name \in DOMAIN editor_edit_settings
        /\ editor_edit_settings[last.name] = last.value

\* C15 witness: a slider change with a current image whose request failed.
C15_Witness ==
    /\ last.op = "on_slider_changed"
    /\ last.ctrl
    /\ editor_current # NoImage
    /\ FirstIndex(calls, "logger.error") > 0

\* C14 witness: the Brightness slider was set beyond its upper end and the
\* edits were saved to the current image, which holds the slider's maximum.
C14_Witness ==
    /\ last.op = "save_current_edits"
    /\ editor_current # NoImage
    /\ "Brightness" \in DOMAIN heap[editor_current].edit_settings
    /\ heap[editor_current].edit_settings["Brightness"] = SliderMax

\* C16: when a preset is applied to several records and the application
\* fails for some of them, the outcome of the operation reports success or
\* failure for each record.
C16_PresetFailuresReportedPerRecord ==
    ( /\ last.op = "apply_preset_to_selected"
      /\ Len(get_selected_images) >= 2
      /\ \E k \in 1..Len(calls) : calls[k][1] = "apply_preset" /\ ~calls[k][4] )
    => last.result # None

\* the entries of log named tag, in order
Entries(log, tag) ==
    LET Named(e) == e[1] = tag
    IN  SelectSeq(log, Named)

\* C17: a batch submit over a non-empty selection is one batch call that
\* processes every selected record exactly once, in collection order, with
\* the same settings, and no other record; operation_completed is emitted
\* exactly once, after processing_finished of every target.
C17_BatchSubmitIsOneOrderedBatch ==
    (last.op = "submit_gallery_settings" /\ get_selected_images # <<>>) =>
        LET targets == get_selected_images
            requests == Entries(calls, "process_single_image")
            finished == Entries(calls, "processing_finished")
        IN  /\ Len(Entries(calls, "apply_batch_edits")) = 1
            /\ Len(Entries(calls, "process_batch")) = 1
            /\ Len(requests) = Len(targets)
            /\ \A k \in 1..Len(requests) :
                  requests[k] = <<"process_single_image", targets[k], GallerySettings>>
            /\ Len(finished) = Len(targets)
            /\ \A k \in 1..Len(finished) :
                  finished[k] = <<"processing_finished", targets[k]>>
            /\ Len(Entries(calls, "operation_completed")) = 1
            /\ calls[Len(calls)] = <<"operation_completed", "batch_edit">>

\* C17 witness: the settings were submitted with two records selected.
C17_Witness ==
    /\ last.op = "submit_gallery_settings"
    /\ Len(get_selected_images) = 2
    /\ Len(Entries(calls, "processing_finished")) = 2

\* C18: initialize loads the settings before it announces service_ready,
\* and choosing a directory writes last_directory with exactly one
\* save_settings, which sees the new value, before the directory is loaded.
C18_SettingsLoadedFirstAndSavedOnWrite ==
    /\ last.op \in {"init", "initialize"} =>
          /\ FirstIndex(calls, "load_settings") > 0
          /\ FirstIndex(calls, "load_settings") < FirstIndex(calls, "service_ready")
    /\ (last.op = "choose_directory" /\ last.name # "") =>
          /\ Len(Entries(calls, "save_settings")) = 1
          /\ Entries(calls, "save_settings")[1][2].last_directory = last.name
          /\ Entries(calls, "save_settings")[1][2] = settings
          /\ FirstIndex(calls, "save_settings") < FirstIndex(calls, "directory_scanned")

\* C18 witness: a directory was chosen, saved as last_directory and loaded.
C18_Witness ==
    /\ last.op = "choose_directory"
    /\ settings.last_directory = "/photos"
    /\ FirstIndex(calls, "directory_scanned") > 0

\* C19: a preset name that resolves still resolves after every operation.
C19_CatalogueOnlyGrows ==
    [][ \A n \in DOMAIN presets : n \in DOMAIN presets' ]_vars

\* the handlers that hand a panel its current image
SetsCurrentImage ==
    {"load_headshots", "tab_clicked", "home", "previous_tab", "next_tab"}

\* C20: handing a panel its current image (load_headshots, a tab change)
\* changes no record's selection flag and no tile, and select_image changes
\* neither the editor's nor the hue panel's current image.
C20_SelectionAndCurrentImageOrthogonal ==
    [][ /\ last'.op \in SetsCurrentImage =>
              /\ headshot_data' = headshot_data
              /\ gallery_items' = gallery_items
              /\ \A k \in 1..Len(headshot_data) :
                    heap'[headshot_data[k]].is_selected =
                       heap[headshot_data[k]].is_selected
        /\ last'.op = "select_image" =>
              /\ editor_current' = editor_current
              /\ hue_current' = hue_current ]_vars

\* C20 witness: a click deselected the record that is the editor's current
\* image, and it is still the current image.
C20_Witness ==
    /\ last.op = "select_image"
    /\ editor_current \in ActiveRecords
    /\ ~heap[editor_current].is_selected
    /\ hue_current = NoImage

\* the handlers that change the current tab
TabHandlers == {"tab_clicked", "home", "previous_tab", "next_tab"}

\* o2 after a step is the object o was before it (an object only a panel
\* still references is renumbered when batches are dropped)
SameObjectAfter(o, o2) ==
    IF o = NoImage \/ o2 = NoImage
    THEN o = o2
    ELSE /\ o.idx = o2.idx
         /\ (o.gen = 1) = (o2.gen = 1)
         /\ heap'[o2] = heap[o]

\* C21: a change to the Editor tab (index 1) or the Hue tab (index 2) with a
\* non-empty selection sets that panel's current image to the first selected
\* record in collection order and keeps the other panel's; with an empty
\* selection, or on a change to the Gallery tab (index 0), both panels keep
\* their current image.
C21_TabChangeDerivesCurrentFromSelection ==
    [][ last'.op \in TabHandlers =>
          LET changed == tab_index' # tab_index
              sets == changed /\ FirstSelected # NoImage
          IN  /\ IF sets /\ tab_index' = 1
                 THEN editor_current' = FirstSelected
                 ELSE SameObjectAfter(editor_current, editor_current')
              /\ IF sets /\ tab_index' = 2
                 THEN hue_current' = FirstSelected
                 ELSE SameObjectAfter(hue_current, hue_current') ]_vars

\* C21 witness: the tab changed to the Editor tab with nothing selected and
\* the editor still holds the current image it had.
C21_Witness ==
    /\ last.op \in TabHandlers
    /\ tab_index = 1
    /\ last.value # 1
    /\ get_selected_images = <<>>
    /\ editor_current # NoImage

\* C22: in every reachable state, for every index with both a tile and a
\* record, the tile is highlighted exactly when the record is selected.
C22_TilesAgreeWithRecords ==
    \A k \in 1..Len(headshot_data) :
        k <= Len(gallery_items) =>
            gallery_items[k] = heap[headshot_data[k]].is_selected

\* the handlers that may write a record's edit_settings
EditWriters == {"save_current_edits", "reset_editor_settings"}

\* the handlers that replace the collection
Loaders == {"choose_directory", "load_images"}

\* the objects of h outside the active collection
Superseded(h) == {o \in DOMAIN h : o.gen # 1}

\* C23: a slider change leaves everything but the editor's own pending
\* settings and the slider as it was; save_current_edits and
\* reset_editor_settings leave every record other than the editor's current
\* image as it was; no other handler changes the edit_settings of a record
\* (a load creates new records and keeps those of the records the panels
\* still hold).
C23_EditsPendingUntilSaved ==
    [][ /\ last'.op \in {"on_slider_changed", "slider_kept"} =>
              UNCHANGED <<headshot_data, heap, gallery_items, presets,
                          editor_current, hue_current, hue_slider, hue_value,
                          current_directory, dir_path_label, settings>>
        /\ last'.op \in EditWriters =>
              /\ DOMAIN heap' = DOMAIN heap
              /\ \A o \in DOMAIN heap : o # editor_current => heap'[o] = heap[o]
        /\ last'.op \notin EditWriters =>
              /\ last'.op \notin Loaders =>
                    /\ headshot_data' = headshot_data
                    /\ \A k \in 1..Len(headshot_data) :
                          heap'[headshot_data[k]].edit_settings =
                          heap[headshot_data[k]].edit_settings
              /\ \A o2 \in Superseded(heap') :
                    \E o \in DOMAIN heap :
                        /\ o.idx = o2.idx
                        /\ heap'[o2].edit_settings = heap[o].edit_settings ]_vars

\* C23 witness: a slider change with a current image whose saved settings
\* differ from the editor's pending ones.
C23_Witness ==
    /\ last.op = "on_slider_changed"
    /\ editor_current # NoImage
    /\ editor_edit_settings # heap[editor_current].edit_settings

\* C24: load_headshots with a selection sets the editor's current image to
\* the first selected record and the pending settings to that record's saved
\* ones; save_current_edits right after it changes no record.
C24_PendingEditsDoNotLeak ==
    [][ /\ (last'.op = "load_headshots" /\ FirstSelected # NoImage) =>
              /\ editor_current' = FirstSelected
              /\ editor_edit_settings' = heap'[editor_current'].edit_settings
              /\ heap'[editor_current'].edit_settings =
                    heap[FirstSelected].edit_settings
        /\ (/\ last.op = "load_headshots"
            /\ get_selected_images # <<>>
            /\ last'.op = "save_current_edits") => heap' = heap ]_vars

\* C24 witness: the Brightness slider was moved, and load_headshots has set
\* a current image whose saved settings are empty; the pending settings are
\* empty too.
C24_Witness ==
    /\ last.op = "load_headshots"
    /\ editor_current # NoImage
    /\ editor_sliders["Brightness"].value # 0
    /\ heap[editor_current].edit_settings = EmptyMap
    /\ editor_edit_settings = EmptyMap

\* the editor's controls and the hue controls, by the handler they run
EditorControls ==
    {"on_slider_changed", "slider_kept", "save_current_edits",
     "apply_similar_settings"}

HueControls == {"hue_slider_moved", "hue_text_edited", "reset_hue"}

\* the requests about one record a panel makes
RecordRequests ==
    {"process_single_image", "save_edited_image", "get_similar_images",
     "adjust_hue"}

\* C25: while the editor has no current image its slider, Save Changes and
\* Find Similar make no request about a record, and while the hue panel has
\* no current image its slider, value field and reset button make none
\* either; the records, the collection, the tiles, the catalogue and the
\* directory state stay as they were.
C25_NoRequestWithoutCurrentImage ==
    [][ (\/ last'.op \in EditorControls /\ editor_current = NoImage
         \/ last'.op \in HueControls /\ hue_current = NoImage) =>
            /\ \A k \in 1..Len(calls') : calls'[k][1] \notin RecordRequests
            /\ UNCHANGED <<headshot_data, heap, gallery_items, presets,
                           editor_current, hue_current, current_directory,
                           dir_path_label, settings>> ]_vars

\* C25 witness: with no current image in either panel the Brightness slider
\* was moved and a hue typed into the value field has moved the hue slider.
C25_Witness ==
    /\ last.op = "hue_text_edited"
    /\ hue_current = NoImage
    /\ editor_current = NoImage
    /\ hue_slider = 90
    /\ editor_sliders["Brightness"].value = 20

\* the typed texts that are no number of the hue range
InvalidHueEntries ==
    {<<"2", "0", "0">>, <<"-", "2", "0", "0">>, <<"x">>, <<>>}

\* C27: a move of the hue slider, a text typed into its value field or a
\* reset ends after at most one change of the slider's value, with at most
\* one adjust_hue request and none without a change; the slider ends within
\* HueMin..HueMax; a text that is no number of the range leaves the slider as
\* it was; after a change of the slider the value field shows its value.
C27_HueCascadeTerminates ==
    [][ last'.op \in HueControls =>
          LET changes == Len(Entries(calls', "valueChanged"))
              requests == Len(Entries(calls', "adjust_hue"))
          IN  /\ changes <= 1
              /\ requests <= changes
              /\ Len(calls') = changes + requests
              /\ (changes = 1) = (hue_slider' # hue_slider)
              /\ hue_slider' \in HueMin..HueMax
              /\ (last'.op = "hue_text_edited" /\ last'.name \in InvalidHueEntries)
                    => hue_slider' = hue_slider
              /\ hue_slider' # hue_slider => hue_value' = Str(hue_slider') ]_vars

\* C27 witness: "090" was typed with a current image; the slider moved to 90,
\* one request was made and the value field was rewritten to "90".
C27_Witness ==
    /\ last.op = "hue_text_edited"
    /\ last.name = <<"0", "9", "0">>
    /\ hue_current # NoImage
    /\ hue_slider = 90
    /\ hue_value = <<"9", "0">>
    /\ Len(Entries(calls, "adjust_hue")) = 1

\* C26: in the signals of one batch over at least one target the
\* processing_progress values never decrease, and every 100 among them comes
\* after processing_finished of all targets but the last.
C26_BatchProgressMonotone ==
    (last.op = "submit_gallery_settings" /\ get_selected_images # <<>>) =>
        LET progress == Entries(calls, "processing_progress")
            n == Len(get_selected_images)
        IN  /\ \A k \in 1..(Len(progress) - 1) :
                  progress[k][2] <= progress[k + 1][2]
            /\ \A k \in 1..Len(calls) :
                  calls[k] = <<"processing_progress", 100>> =>
                      Len(Entries(SubSeq(calls, 1, k), "processing_finished")) = n - 1

\* C28: the current tab index stays in 0..2; next_tab goes one tab on and
\* from the last tab to the first, previous_tab one tab back and from the
\* first tab to the last; next_tab then previous_tab, and previous_tab then
\* next_tab, end on the tab they started from, and so do three next_tab in a
\* row.
C28_TabNavigationIsACycle ==
    [][ /\ tab_index' \in 0..2
        /\ last'.op = "next_tab" =>
              /\ tab_index' = (tab_index + 1) % 3
              /\ tab_index = 2 => tab_index' = 0
        /\ last'.op = "previous_tab" =>
              /\ tab_index' = (tab_index + 2) % 3
              /\ tab_index = 0 => tab_index' = 2
        /\ (last.op = "next_tab" /\ last'.op = "previous_tab") =>
              tab_index' = last.value
        /\ (last.op = "previous_tab" /\ last'.op = "next_tab") =>
              tab_index' = last.value
        /\ next_tab(next_tab(next_tab(tab_index))) = tab_index ]_vars

\* C28 witness: previous_tab on the first tab has gone to the last one.
C28_Witness ==
    /\ last.op = "previous_tab"
    /\ last.value = 0
    /\ tab_index = 2

\* the footer's text for each tab
PageLabelOf ==
    [i \in 0..2 |->
       CASE i = 0 -> <<"1", " ", "o", "f", " ", "3">>
         [] i = 1 -> <<"2", " ", "o", "f", " ", "3">>
         [] i = 2 -> <<"3", " ", "o", "f", " ", "3">>]

\* C29: in every reachable state the page label reads "<tab index + 1> of 3".
C29_PageLabelShowsCurrentTab ==
    /\ tab_index \in 0..2
    /\ page_label = PageLabelOf[tab_index]

\* C29 witness: the home button has gone back from the last tab and the
\* label reads "1 of 3" again.
C29_Witness ==
    /\ last.op = "home"
    /\ last.value = 2
    /\ tab_index = 0
    /\ page_label = <<"1", " ", "o", "f", " ", "3">>

\* current_directory, the label and the last_directory setting agree
DirectoryConsistent ==
    /\ (current_directory = None) = (dir_path_label = NoDirectoryText)
    /\ current_directory # None =>
          /\ current_directory = dir_path_label
          /\ current_directory = settings["last_directory"]

\* C30: in every reachable state current_directory is unset exactly when the
\* label reads "No directory selected", and when set it equals the label and
\* the last_directory setting; a cancelled dialog changes none of the three
\* and loads nothing; load_headshots loads no directory.
C30_DirectoryStateConsistent ==
    /\ []DirectoryConsistent
    /\ [][ /\ (last'.op = "choose_directory" /\ last'.name = "") =>
                 /\ UNCHANGED <<current_directory, dir_path_label, settings,
                                headshot_data, heap, gallery_items>>
                 /\ calls' = <<>>
           /\ last'.op = "load_headshots" =>
                 /\ UNCHANGED <<current_directory, dir_path_label, settings,
                                headshot_data, gallery_items>>
                 /\ calls' = <<>> ]_vars

\* C30 witness: the dialog was cancelled after a directory had been chosen,
\* and the directory is still the current one.
C30_Witness ==
    /\ last.op = "choose_directory"
    /\ last.name = ""
    /\ current_directory \in Dirs
    /\ dir_path_label = current_directory

====
